---- MODULE Spec2Model ----
(***************************************************************************)
(* A state-machine model of advanced-vector/vector.h: RawMemory<T> (an     *)
(* untyped storage block) and Vector<T> (the typed dynamic array on top).  *)
(*                                                                         *)
(* Two Vector objects are modelled.  A Vector is a record                  *)
(*     [alive, data : [buf, cap, slots], size]                             *)
(* where data is the RawMemory member data_ and size is size_.  The block  *)
(* buffer_ points to is kept with the pointer: slots[i+1] is slot i of the *)
(* block, Uninit for raw bytes, otherwise the value of the T object living *)
(* there (Moved for an object that has been moved from).  buf is "null"    *)
(* for nullptr, "own" for a pointer to an allocated block, "dangling" for  *)
(* a pointer to a block that has been deallocated.                         *)
(*                                                                         *)
(* Every action is one whole member function.  The element type may fail   *)
(* in its copy constructor, its default constructor and its copy           *)
(* assignment, and operator new may fail; moves of T do not fail.  The     *)
(* variable nothrowMove is the compile-time condition of the if constexpr  *)
(* in Reserve and Emplace, fixed for a behaviour.                          *)
(***************************************************************************)
EXTENDS Integers, Sequences, FiniteSets, TLC

\* Bounds of the model: the largest capacity in the specification of one
\* Vector, and in the specification of two.
MaxCap == 4
PairCap == 2

Vecs == {1, 2}

\* T is a type of two values, one of them T() (value-initialization).  The
\* code never looks at the value of an element, so two values show every
\* element that is lost, duplicated or out of place.
DefaultValue == 0
Values == {DefaultValue, DefaultValue + 1}
\* A slot of raw memory in which no object lives.
Uninit == -1
\* The value of an object that has been moved from.
Moved == -2

VARIABLES
    vec,          \* vec[v]: the Vector object v
    nothrowMove,  \* is_nothrow_move_constructible_v<T> || !is_copy_constructible_v<T>
    last,         \* the member function that ran last, and how it ended
    abs           \* the abstract list PushBack/PopBack/Insert/Erase are compared to

vars == <<vec, nothrowMove, last, abs>>

Min(a, b) == IF a <= b THEN a ELSE b

----------------------------------------------------------------------------
(* Slots of a block.  Indexes are the 0-based indexes of the source.       *)

\* s with the slots [from, from + Len(vals)) holding vals.
Fill(s, from, vals) ==
    [j \in 1..Len(s) |->
        IF j - 1 >= from /\ j - 1 < from + Len(vals) THEN vals[j - from] ELSE s[j]]

\* The n slots of s from slot `from` on.
Sub(s, from, n) == [k \in 1..n |-> s[from + k]]

\* s with the slots [from, from + n) raw again.
Clear(s, from, n) == Fill(s, from, [k \in 1..n |-> Uninit])

\* s with the objects in [from, from + n) moved from.
MoveOut(s, from, n) == Fill(s, from, [k \in 1..n |-> Moved])

LiveIn(s, from, n) == Cardinality({k \in 1..n : from + k <= Len(s) /\ s[from + k] # Uninit})
LiveCount(s) == LiveIn(s, 0, Len(s))
AllLive(s, from, n) == \A k \in 1..n : from + k <= Len(s) /\ s[from + k] # Uninit

----------------------------------------------------------------------------
(* RawMemory<T>                                                            *)

NullMem == [buf |-> "null", cap |-> 0, slots |-> <<>>]

\* RawMemory(size_t capacity) with Allocate: nullptr for n = 0.
Allocate(n) ==
    [buf |-> IF n # 0 THEN "own" ELSE "null",
     cap |-> n,
     slots |-> [i \in 1..n |-> Uninit]]

\* Deallocate(buf): the number of blocks operator delete gives back, the
\* objects still living in the block (they are never destroyed), and
\* whether the pointer had been deleted before.
Deallocate(m) ==
    [freed |-> IF m.buf = "own" THEN 1 ELSE 0,
     lost |-> LiveCount(m.slots),
     ub |-> m.buf = "dangling"]

\* RawMemory::operator=(RawMemory&&) on distinct objects: what *this
\* becomes (rhs becomes NullMem).
MoveAssignMem(this, rhs) == rhs

\* RawMemory::operator=(RawMemory&&) with &rhs == this: buffer_ is deleted,
\* then exchanged with nullptr and assigned back its old value, and so is
\* capacity_.
SelfMoveAssignMem(this) ==
    IF this.buf = "own"
    THEN [buf |-> "dangling", cap |-> this.cap, slots |-> <<>>]
    ELSE this

----------------------------------------------------------------------------
(* The <memory> algorithms and the element loops of Vector.  Each returns  *)
(* the slots afterwards, `lost` (objects overwritten without having been   *)
(* destroyed) and `ub` (an object read, assigned or destroyed where none   *)
(* lives).                                                                 *)

\* std::uninitialized_copy_n(src + a, n, dst + b); the copy constructor
\* throws at element f when f < n, and the algorithm then destroys the f
\* objects it constructed.
UninitializedCopyN(src, a, n, dst, b, f) ==
    [ok |-> f >= n,
     src |-> src,
     dst |-> IF f >= n THEN Fill(dst, b, Sub(src, a, n)) ELSE Clear(dst, b, f),
     lost |-> LiveIn(dst, b, Min(f, n)),
     ub |-> ~AllLive(src, a, Min(f + 1, n))]

\* std::uninitialized_move_n(src + a, n, dst + b); moves do not throw.
UninitializedMoveN(src, a, n, dst, b) ==
    [ok |-> TRUE,
     src |-> MoveOut(src, a, n),
     dst |-> Fill(dst, b, Sub(src, a, n)),
     lost |-> LiveIn(dst, b, n),
     ub |-> ~AllLive(src, a, n)]

\* std::uninitialized_value_construct_n(dst + b, n); T() throws at element
\* f when f < n, and the algorithm then destroys what it constructed.
UninitializedValueConstructN(dst, b, n, f) ==
    [ok |-> f >= n,
     dst |-> IF f >= n THEN Fill(dst, b, [k \in 1..n |-> DefaultValue])
             ELSE Clear(dst, b, f),
     lost |-> LiveIn(dst, b, Min(f, n))]

\* DestroyN(buf + from, n) and std::destroy_n.
DestroyN(s, from, n) ==
    [slots |-> Clear(s, from, n), ub |-> ~AllLive(s, from, n)]

\* for (i = 0; i < n; ++i) data_[i] = rhs[i]; the copy assignment throws at
\* element f when f < n.
AssignN(src, dst, n, f) ==
    [ok |-> f >= n,
     dst |-> Fill(dst, 0, Sub(src, 0, Min(f, n))),
     ub |-> ~AllLive(src, 0, Min(f + 1, n)) \/ ~AllLive(dst, 0, Min(f + 1, n))]

----------------------------------------------------------------------------
(* Vector<T>                                                               *)

\* A Vector whose lifetime has not begun or has ended.
Dead == [alive |-> FALSE, data |-> NullMem, size |-> 0]

\* Vector() = default.
EmptyVector == [alive |-> TRUE, data |-> NullMem, size |-> 0]

Size(a) == a.size
Capacity(a) == a.data.cap

\* The elements operator[] gives for the indexes 0 .. Size() - 1.
Elems(a) == [k \in 1..a.size |-> IF k <= Len(a.data.slots) THEN a.data.slots[k] ELSE Uninit]

WithSlots(a, s) == [a EXCEPT !.data.slots = s]

\* How a member function of one Vector ended: the Vector afterwards, the
\* result ("ok", "bad_alloc", "elem_fail" for an exception of T, "terminate"
\* for an exception leaving a noexcept function, "ub" for a call that
\* returned after undefined behaviour, "crash" for one that did not return),
\* the objects lost, the blocks allocated minus the blocks
\* deallocated, and the index of the returned iterator.
Out(a, res, ub, lost, net) ==
    [a |-> a, res |-> IF ub THEN "ub" ELSE res, lost |-> lost, net |-> net, ret |-> 0]

\* The same for a member function of two Vectors.
Out2(a, b, res, ub, lost, net) ==
    [a |-> a, b |-> b, res |-> IF ub THEN "ub" ELSE res, lost |-> lost, net |-> net,
     ret |-> 0]

----------------------------------------------------------------------------
(* Construction, destruction, assignment, Swap                             *)

\* explicit Vector(size_t size): data_(size), size_(size), then
\* uninitialized_value_construct_n.  An exception leaves no object: the
\* member data_ is destroyed, which deallocates the block.
SizedConstruct(n, allocOk, f) ==
    IF n # 0 /\ ~allocOk THEN Out(Dead, "bad_alloc", FALSE, 0, 0)
    ELSE LET data == Allocate(n)
             r == UninitializedValueConstructN(data.slots, 0, n, f)
             d == Deallocate([data EXCEPT !.slots = r.dst])
         IN  IF ~r.ok
             THEN Out(Dead, "elem_fail", d.ub, r.lost + d.lost,
                      (IF n # 0 THEN 1 ELSE 0) - d.freed)
             ELSE Out([alive |-> TRUE, data |-> [data EXCEPT !.slots = r.dst], size |-> n],
                      "ok", FALSE, r.lost, IF n # 0 THEN 1 ELSE 0)

\* Vector(const Vector& other): data_(other.size_), size_(other.size_), then
\* uninitialized_copy_n.
\* A plausible bug of the copy constructor: the block is sized by the
\* capacity of other and not by its size.
CopyConstructKeepsCapacity(other, allocOk, f) ==
    IF other.data.cap # 0 /\ ~allocOk THEN Out(Dead, "bad_alloc", FALSE, 0, 0)
    ELSE LET data == Allocate(other.data.cap)
             r == UninitializedCopyN(other.data.slots, 0, other.size, data.slots, 0, f)
             d == Deallocate([data EXCEPT !.slots = r.dst])
         IN  IF ~r.ok
             THEN Out(Dead, "elem_fail", r.ub \/ d.ub, r.lost + d.lost,
                      (IF other.data.cap # 0 THEN 1 ELSE 0) - d.freed)
             ELSE Out([alive |-> TRUE, data |-> [data EXCEPT !.slots = r.dst],
                       size |-> other.size],
                      "ok", r.ub, r.lost, IF other.data.cap # 0 THEN 1 ELSE 0)

CopyConstruct(other, allocOk, f) ==
    IF other.size # 0 /\ ~allocOk THEN Out(Dead, "bad_alloc", FALSE, 0, 0)
    ELSE LET data == Allocate(other.size)
             r == UninitializedCopyN(other.data.slots, 0, other.size, data.slots, 0, f)
             d == Deallocate([data EXCEPT !.slots = r.dst])
         IN  IF ~r.ok
             THEN Out(Dead, "elem_fail", r.ub \/ d.ub, r.lost + d.lost,
                      (IF other.size # 0 THEN 1 ELSE 0) - d.freed)
             ELSE Out([alive |-> TRUE, data |-> [data EXCEPT !.slots = r.dst],
                       size |-> other.size],
                      "ok", r.ub, r.lost, IF other.size # 0 THEN 1 ELSE 0)

\* Vector(Vector&& other) noexcept: data_(other.size_) allocates, and
\* data_ = std::move(other.data_) deallocates that block again and takes
\* other's; size_ = std::exchange(other.size_, 0).  bad_alloc leaving the
\* noexcept constructor calls std::terminate.
MoveConstruct(other, allocOk) ==
    IF other.size # 0 /\ ~allocOk THEN Out2(Dead, other, "terminate", FALSE, 0, 0)
    ELSE LET data == Allocate(other.size)
             d == Deallocate(data)
         IN  Out2([alive |-> TRUE, data |-> MoveAssignMem(data, other.data),
                   size |-> other.size],
                  [other EXCEPT !.data = NullMem, !.size = 0],
                  "ok", d.ub, d.lost, (IF other.size # 0 THEN 1 ELSE 0) - d.freed)

\* ~Vector(): DestroyN(data_.GetAddress(), size_), then ~RawMemory().
Destruct(a) ==
    LET ds == DestroyN(a.data.slots, 0, a.size)
        d == Deallocate([a.data EXCEPT !.slots = ds.slots])
    IN  Out(Dead, "ok", ds.ub \/ d.ub, d.lost, 0 - d.freed)

\* Swap(Vector& other): a and b exchanged.
Swap(a, b) ==
    Out2([a EXCEPT !.data = b.data, !.size = b.size],
         [b EXCEPT !.data = a.data, !.size = a.size], "ok", FALSE, 0, 0)

\* A plausible bug of the branch below: the old elements are destroyed and
\* the block is given up before rhs is copied.
CopyAndSwapDestroysFirst(a, rhs, allocOk, f) ==
    LET c == CopyConstruct(rhs, allocOk, f)
        d == Destruct(a)
    IN  IF c.res # "ok"
        THEN Out2(EmptyVector, rhs, c.res, d.res = "ub", c.lost + d.lost, c.net + d.net)
        ELSE Out2(c.a, rhs, "ok", d.res = "ub", c.lost + d.lost, c.net + d.net)

\* operator=(const Vector& rhs), the branch rhs.size_ > data_.Capacity():
\* Vector rhs_copy(rhs); Swap(rhs_copy); then ~Vector() of rhs_copy, which
\* holds what *this held.
CopyAndSwap(a, rhs, allocOk, f) ==
    LET c == CopyConstruct(rhs, allocOk, f)
        d == Destruct(a)
    IN  IF c.res # "ok" THEN Out2(a, rhs, c.res, FALSE, c.lost, c.net)
        ELSE Out2(c.a, rhs, "ok", d.res = "ub", c.lost + d.lost, c.net + d.net)

\* operator=(const Vector& rhs), the branches with rhs.size_ <= Capacity().
\* f is where the copy constructor throws, g where the copy assignment
\* throws.
CopyAssignInPlace(a, rhs, f, g) ==
    IF rhs.size < a.size
    THEN LET as == AssignN(rhs.data.slots, a.data.slots, rhs.size, g)
             ds == DestroyN(as.dst, rhs.size, a.size - rhs.size)
         IN  IF ~as.ok THEN Out2(WithSlots(a, as.dst), rhs, "elem_fail", as.ub, 0, 0)
             ELSE Out2([WithSlots(a, ds.slots) EXCEPT !.size = rhs.size], rhs,
                       "ok", as.ub \/ ds.ub, 0, 0)
    ELSE LET as == AssignN(rhs.data.slots, a.data.slots, a.size, g)
             \* uninitialized_copy_n(rhs.data_ + size_, rhs.size_ - size_,
             \*                      data_.GetAddress()): the destination is slot 0
             uc == UninitializedCopyN(rhs.data.slots, a.size, rhs.size - a.size,
                                      as.dst, 0, f)
         IN  IF ~as.ok THEN Out2(WithSlots(a, as.dst), rhs, "elem_fail", as.ub, 0, 0)
             ELSE IF ~uc.ok
             THEN Out2(WithSlots(a, uc.dst), rhs, "elem_fail", as.ub \/ uc.ub, uc.lost, 0)
             ELSE Out2([WithSlots(a, uc.dst) EXCEPT !.size = rhs.size], rhs,
                       "ok", as.ub \/ uc.ub, uc.lost, 0)

\* operator=(const Vector& rhs) with this != &rhs.
CopyAssign(a, rhs, allocOk, f, g) ==
    IF rhs.size > a.data.cap THEN CopyAndSwap(a, rhs, allocOk, f)
    ELSE CopyAssignInPlace(a, rhs, f, g)

\* A plausible bug of the move assignment: rhs.size_ is not reset.
MoveAssignKeepsSize(a, rhs) ==
    LET d == Deallocate(a.data)
    IN  Out2([a EXCEPT !.data = MoveAssignMem(a.data, rhs.data), !.size = rhs.size],
             [rhs EXCEPT !.data = NullMem],
             "ok", d.ub, d.lost, 0 - d.freed)

\* operator=(Vector&& rhs) noexcept with this != &rhs:
\* data_ = std::move(rhs.data_) deallocates this block, no element of it
\* having been destroyed; size_ = std::exchange(rhs.size_, 0).
MoveAssign(a, rhs) ==
    LET d == Deallocate(a.data)
    IN  Out2([a EXCEPT !.data = MoveAssignMem(a.data, rhs.data), !.size = rhs.size],
             [rhs EXCEPT !.data = NullMem, !.size = 0],
             "ok", d.ub, d.lost, 0 - d.freed)

\* operator=(Vector&& rhs) noexcept with this == &rhs.
SelfMoveAssign(a) ==
    LET d == Deallocate(a.data)
    IN  Out([a EXCEPT !.data = SelfMoveAssignMem(a.data)], "ok", d.ub, d.lost, 0 - d.freed)

----------------------------------------------------------------------------
(* Reserve, Resize                                                         *)

\* A plausible bug of Reserve: std::destroy_n on the old block is left out.
ReserveKeepsOldElements(a, n, allocOk, f) ==
    IF n <= a.data.cap THEN Out(a, "ok", FALSE, 0, 0)
    ELSE IF ~allocOk THEN Out(a, "bad_alloc", FALSE, 0, 0)
    ELSE LET new_data == Allocate(n)
             mig == IF nothrowMove
                    THEN UninitializedMoveN(a.data.slots, 0, a.size, new_data.slots, 0)
                    ELSE UninitializedCopyN(a.data.slots, 0, a.size, new_data.slots, 0, f)
             dn == Deallocate([new_data EXCEPT !.slots = mig.dst])
             dold == Deallocate([a.data EXCEPT !.slots = mig.src])
         IN  IF ~mig.ok
             THEN Out(a, "elem_fail", mig.ub \/ dn.ub, mig.lost + dn.lost, 1 - dn.freed)
             ELSE Out([a EXCEPT !.data = [new_data EXCEPT !.slots = mig.dst]],
                      "ok", mig.ub \/ dold.ub, mig.lost + dold.lost,
                      1 - dold.freed)

\* A plausible bug of Reserve: the new block is adopted before the elements
\* are migrated, so a failing copy leaves the Vector on the new block.
ReserveSwapsFirst(a, n, allocOk, f) ==
    IF n <= a.data.cap THEN Out(a, "ok", FALSE, 0, 0)
    ELSE IF ~allocOk THEN Out(a, "bad_alloc", FALSE, 0, 0)
    ELSE LET new_data == Allocate(n)
             mig == IF nothrowMove
                    THEN UninitializedMoveN(a.data.slots, 0, a.size, new_data.slots, 0)
                    ELSE UninitializedCopyN(a.data.slots, 0, a.size, new_data.slots, 0, f)
             ds == DestroyN(mig.src, 0, a.size)
             dold == Deallocate([a.data EXCEPT !.slots = IF mig.ok THEN ds.slots
                                                          ELSE a.data.slots])
         IN  Out([a EXCEPT !.data = [new_data EXCEPT !.slots = mig.dst]],
                 IF mig.ok THEN "ok" ELSE "elem_fail",
                 mig.ub \/ dold.ub, mig.lost + dold.lost, 1 - dold.freed)

\* A plausible bug of Reserve: the early return tests for equality, so a
\* smaller new_capacity reallocates.
ReserveUnlessEqual(a, n, allocOk, f) ==
    IF n = a.data.cap THEN Out(a, "ok", FALSE, 0, 0)
    ELSE IF ~allocOk THEN Out(a, "bad_alloc", FALSE, 0, 0)
    ELSE LET new_data == Allocate(n)
             k == Min(a.size, n)
             mig == IF nothrowMove
                    THEN UninitializedMoveN(a.data.slots, 0, k, new_data.slots, 0)
                    ELSE UninitializedCopyN(a.data.slots, 0, k, new_data.slots, 0, f)
             dn == Deallocate([new_data EXCEPT !.slots = mig.dst])
             ds == DestroyN(mig.src, 0, a.size)
             dold == Deallocate([a.data EXCEPT !.slots = ds.slots])
         IN  IF ~mig.ok
             THEN Out(a, "elem_fail", mig.ub \/ dn.ub, mig.lost + dn.lost, 1 - dn.freed)
             ELSE Out([a EXCEPT !.data = [new_data EXCEPT !.slots = mig.dst]],
                      "ok", mig.ub \/ ds.ub \/ dold.ub, mig.lost + dold.lost,
                      1 - dold.freed)

\* Reserve(new_capacity).  f is where the copy constructor throws.
Reserve(a, n, allocOk, f) ==
    IF n <= a.data.cap THEN Out(a, "ok", FALSE, 0, 0)
    ELSE IF ~allocOk THEN Out(a, "bad_alloc", FALSE, 0, 0)
    ELSE LET new_data == Allocate(n)
             mig == IF nothrowMove
                    THEN UninitializedMoveN(a.data.slots, 0, a.size, new_data.slots, 0)
                    ELSE UninitializedCopyN(a.data.slots, 0, a.size, new_data.slots, 0, f)
             dn == Deallocate([new_data EXCEPT !.slots = mig.dst])
             ds == DestroyN(mig.src, 0, a.size)
             \* data_.Swap(new_data); ~RawMemory() of new_data, now the old block
             dold == Deallocate([a.data EXCEPT !.slots = ds.slots])
         IN  IF ~mig.ok
             THEN Out(a, "elem_fail", mig.ub \/ dn.ub, mig.lost + dn.lost, 1 - dn.freed)
             ELSE Out([a EXCEPT !.data = [new_data EXCEPT !.slots = mig.dst]],
                      "ok", mig.ub \/ ds.ub \/ dold.ub, mig.lost + dold.lost,
                      1 - dold.freed)

\* Resize(new_size).  f as in Reserve, g is where T() throws.
\* A plausible bug of Resize: shrinking only sets size_.
ResizeShrinksSizeOnly(a, n, allocOk, f, g) ==
    IF n < a.size
    THEN Out([a EXCEPT !.size = n], "ok", FALSE, 0, 0)
    ELSE IF n > a.size
    THEN LET r == Reserve(a, n, allocOk, f)
             vc == UninitializedValueConstructN(r.a.data.slots, a.size, n - a.size, g)
         IN  IF r.res # "ok" THEN r
             ELSE IF ~vc.ok
             THEN Out(WithSlots(r.a, vc.dst), "elem_fail", FALSE, r.lost + vc.lost, r.net)
             ELSE Out([WithSlots(r.a, vc.dst) EXCEPT !.size = n], "ok", FALSE,
                      r.lost + vc.lost, r.net)
    ELSE Out(a, "ok", FALSE, 0, 0)

Resize(a, n, allocOk, f, g) ==
    IF n < a.size
    THEN LET ds == DestroyN(a.data.slots, n, a.size - n)
         IN  Out([WithSlots(a, ds.slots) EXCEPT !.size = n], "ok", ds.ub, 0, 0)
    ELSE IF n > a.size
    THEN LET r == Reserve(a, n, allocOk, f)
             vc == UninitializedValueConstructN(r.a.data.slots, a.size, n - a.size, g)
         IN  IF r.res # "ok" THEN r
             ELSE IF ~vc.ok
             THEN Out(WithSlots(r.a, vc.dst), "elem_fail", FALSE, r.lost + vc.lost, r.net)
             ELSE Out([WithSlots(r.a, vc.dst) EXCEPT !.size = n], "ok", FALSE,
                      r.lost + vc.lost, r.net)
    ELSE Out(a, "ok", FALSE, 0, 0)

----------------------------------------------------------------------------
(* PushBack, EmplaceBack, PopBack, Emplace, Insert, Erase                  *)

Ret(o, i) == [o EXCEPT !.ret = i]

\* A plausible bug of TryInitCopy: the handler of the second try block
\* destroys nothing.
TryInitCopyNoCleanup(data, size, delta, new, f) ==
    LET p == UninitializedCopyN(data, 0, delta, new, 0, Min(f, delta))
        s == UninitializedCopyN(data, delta, size - delta, p.dst, delta + 1, f - delta)
    IN  IF ~p.ok
        THEN [ok |-> FALSE, src |-> data, dst |-> DestroyN(p.dst, delta, 1).slots,
              lost |-> p.lost, ub |-> p.ub]
        ELSE [ok |-> s.ok, src |-> data, dst |-> s.dst,
              lost |-> p.lost + s.lost, ub |-> p.ub \/ s.ub]

\* TryInitCopy(delta, new_data): the new element already lives in slot
\* delta of new_data.  The copy constructor throws at element f of the old
\* array when f < size.
TryInitCopy(data, size, delta, new, f) ==
    LET p == UninitializedCopyN(data, 0, delta, new, 0, Min(f, delta))
        s == UninitializedCopyN(data, delta, size - delta, p.dst, delta + 1, f - delta)
    IN  IF ~p.ok
        THEN \* Destroy(new_data + delta)
             [ok |-> FALSE, src |-> data, dst |-> DestroyN(p.dst, delta, 1).slots,
              lost |-> p.lost, ub |-> p.ub]
        ELSE IF ~s.ok
        THEN \* DestroyN(new_data.GetAddress(), delta + 1)
             [ok |-> FALSE, src |-> data, dst |-> DestroyN(s.dst, 0, delta + 1).slots,
              lost |-> p.lost + s.lost, ub |-> p.ub \/ s.ub]
        ELSE [ok |-> TRUE, src |-> data, dst |-> s.dst,
              lost |-> p.lost + s.lost, ub |-> p.ub \/ s.ub]

\* TryInitMove(delta, new_data): moves do not throw.
TryInitMove(data, size, delta, new) ==
    LET p == UninitializedMoveN(data, 0, delta, new, 0)
        s == UninitializedMoveN(p.src, delta, size - delta, p.dst, delta + 1)
    IN  [ok |-> TRUE, src |-> s.src, dst |-> s.dst,
         lost |-> p.lost + s.lost, ub |-> p.ub \/ s.ub]

\* The capacity Emplace allocates when size_ == Capacity().
\* A plausible bug of the growth rule: room for one more element only.
GrownByOne(a) == a.size + 1

GrownCapacity(a) == IF a.size = 0 THEN 1 ELSE a.size * 2

\* Emplace, the branch size_ == Capacity().
EmplaceRealloc(a, delta, x, allocOk, ctorOk, f) ==
    IF ~allocOk THEN Out(a, "bad_alloc", FALSE, 0, 0)
    ELSE LET new_data == Allocate(GrownCapacity(a))
             withNew == Fill(new_data.slots, delta, <<x>>)
             mig == IF nothrowMove
                    THEN TryInitMove(a.data.slots, a.size, delta, withNew)
                    ELSE TryInitCopy(a.data.slots, a.size, delta, withNew, f)
             dn == Deallocate([new_data EXCEPT !.slots = mig.dst])
             ds == DestroyN(mig.src, 0, a.size)
             \* data_ = std::move(new_data) deallocates the old block
             dold == Deallocate([a.data EXCEPT !.slots = ds.slots])
         IN  IF ~ctorOk THEN Out(a, "elem_fail", FALSE, 0, 1 - Deallocate(new_data).freed)
             ELSE IF ~mig.ok
             THEN Out(a, "elem_fail", mig.ub \/ dn.ub, mig.lost + dn.lost, 1 - dn.freed)
             ELSE Ret(Out([a EXCEPT !.data = MoveAssignMem(a.data,
                                                [new_data EXCEPT !.slots = mig.dst]),
                                    !.size = a.size + 1],
                          "ok", mig.ub \/ ds.ub \/ dold.ub, mig.lost + dold.lost,
                          1 - dold.freed), delta)

\* A plausible bug of the branch below: the new value is constructed after
\* the elements have been shifted (data_[delta] = T(args...)).
EmplaceShiftConstructsLate(a, delta, x, ctorOk, crash) ==
    LET s == a.data.slots
        n == a.size
        s1 == Fill(Fill(s, n, <<s[n]>>), n - 1, <<Moved>>)
        s2 == Fill(Fill(s1, delta + 1, Sub(s1, delta, n - 1 - delta)), delta, <<Moved>>)
        s3 == Fill(IF delta < n THEN s2 ELSE s1, delta, <<x>>)
        lost == LiveIn(s, n, 1)
        ub == ~AllLive(s, delta, n - delta) \/ ~AllLive(s, n - 1, 1)
    IN  IF delta = n /\ crash THEN Out(WithSlots(a, s1), "crash", FALSE, lost, 0)
        ELSE IF ~ctorOk
        THEN Out(WithSlots(a, IF delta < n THEN s2 ELSE s1), "elem_fail",
                 ub \/ delta = n, lost, 0)
        ELSE Ret(Out([WithSlots(a, s3) EXCEPT !.size = n + 1], "ok",
                     ub \/ delta = n, lost, 0), delta)

\* Emplace, the branch size_ < Capacity() on a non-empty array.  With
\* pos == end() the range of std::move_backward is [end(), end() - 1), which
\* is no valid range: the loop runs no iteration, or the program crashes
\* (crash) before data_[delta] is assigned.
EmplaceShift(a, delta, x, ctorOk, crash) ==
    LET s == a.data.slots
        n == a.size
        \* new (end()) T(std::forward<T>(*(end() - 1)))
        s1 == Fill(Fill(s, n, <<s[n]>>), n - 1, <<Moved>>)
        \* std::move_backward(begin() + delta, end() - 1, end())
        s2 == Fill(Fill(s1, delta + 1, Sub(s1, delta, n - 1 - delta)), delta, <<Moved>>)
        \* data_[delta] = std::move(tmp)
        s3 == Fill(IF delta < n THEN s2 ELSE s1, delta, <<x>>)
        lost == LiveIn(s, n, 1)
        ub == ~AllLive(s, delta, n - delta) \/ ~AllLive(s, n - 1, 1)
    IN  IF ~ctorOk THEN Out(a, "elem_fail", FALSE, 0, 0)
        ELSE IF delta = n /\ crash THEN Out(WithSlots(a, s1), "crash", FALSE, lost, 0)
        ELSE Ret(Out([WithSlots(a, s3) EXCEPT !.size = n + 1], "ok",
                     ub \/ delta = n, lost, 0), delta)

\* Emplace(pos, args) with delta = pos - begin(); Insert(pos, value) is
\* Emplace(pos, value).
Emplace(a, delta, x, allocOk, ctorOk, f, crash) ==
    IF a.size = Capacity(a) THEN EmplaceRealloc(a, delta, x, allocOk, ctorOk, f)
    ELSE IF a.size = 0
    THEN \* new (begin()) T(args)
         IF ~ctorOk THEN Out(a, "elem_fail", FALSE, 0, 0)
         ELSE Ret(Out([WithSlots(a, Fill(a.data.slots, 0, <<x>>)) EXCEPT !.size = 1],
                      "ok", FALSE, LiveIn(a.data.slots, 0, 1), 0), delta)
    ELSE EmplaceShift(a, delta, x, ctorOk, crash)

\* PushBack(value), both overloads.
PushBack(a, x, allocOk, ctorOk, f) ==
    IF a.size = Capacity(a)
    THEN Ret(Emplace(a, a.size, x, allocOk, ctorOk, f, FALSE), 0)
    ELSE IF ~ctorOk THEN Out(a, "elem_fail", FALSE, 0, 0)
    ELSE Out([WithSlots(a, Fill(a.data.slots, a.size, <<x>>)) EXCEPT !.size = a.size + 1],
             "ok", FALSE, LiveIn(a.data.slots, a.size, 1), 0)

\* EmplaceBack(args): returns a reference to the new last element.
EmplaceBack(a, x, allocOk, ctorOk, f) ==
    IF a.size = Capacity(a)
    THEN Emplace(a, a.size, x, allocOk, ctorOk, f, FALSE)
    ELSE IF ~ctorOk THEN Out(a, "elem_fail", FALSE, 0, 0)
    ELSE Ret(Out([WithSlots(a, Fill(a.data.slots, a.size, <<x>>))
                     EXCEPT !.size = a.size + 1],
                 "ok", FALSE, LiveIn(a.data.slots, a.size, 1), 0), a.size)

\* A plausible bug of PopBack: no test for size_ != 0.
PopBackUnchecked(a) ==
    IF a.size # 0
    THEN LET ds == DestroyN(a.data.slots, a.size - 1, 1)
         IN  Out([WithSlots(a, ds.slots) EXCEPT !.size = a.size - 1], "ok", ds.ub, 0, 0)
    ELSE Out([a EXCEPT !.size = a.size - 1], "ok", TRUE, 0, 0)

\* PopBack().
PopBack(a) ==
    IF a.size # 0
    THEN LET ds == DestroyN(a.data.slots, a.size - 1, 1)
         IN  Out([WithSlots(a, ds.slots) EXCEPT !.size = a.size - 1], "ok", ds.ub, 0, 0)
    ELSE Out(a, "ok", FALSE, 0, 0)

\* A plausible bug of Erase: the loop stops one element early (i < size_ - 1).
EraseStopsEarly(a, delta) ==
    LET s == a.data.slots
        n == a.size
        k == n - 2 - delta
        shifted == IF k > 0
                   THEN Fill(Fill(s, delta, Sub(s, delta + 1, k)), n - 2, <<Moved>>)
                   ELSE s
        ds == DestroyN(shifted, n - 1, 1)
    IN  Ret(Out([WithSlots(a, ds.slots) EXCEPT !.size = n - 1], "ok",
                ~AllLive(s, delta, n - delta), 0, 0), delta)

\* A plausible bug of Erase: the vacated last slot is not destroyed.
EraseNoDestroy(a, delta) ==
    LET s == a.data.slots
        n == a.size
        shifted == IF delta + 1 < n
                   THEN Fill(Fill(s, delta, Sub(s, delta + 1, n - 1 - delta)),
                             n - 1, <<Moved>>)
                   ELSE s
    IN  Ret(Out([WithSlots(a, shifted) EXCEPT !.size = n - 1], "ok",
                ~AllLive(s, delta, n - delta), 0, 0), delta)

\* Erase(pos) with delta = pos - begin().
Erase(a, delta) ==
    LET s == a.data.slots
        n == a.size
        \* for (i = delta + 1; i < size_; ++i) data_[i - 1] = std::move(data_[i])
        shifted == IF delta + 1 < n
                   THEN Fill(Fill(s, delta, Sub(s, delta + 1, n - 1 - delta)),
                             n - 1, <<Moved>>)
                   ELSE s
        \* Destroy(end() - 1)
        ds == DestroyN(shifted, n - 1, 1)
    IN  Ret(Out([WithSlots(a, ds.slots) EXCEPT !.size = n - 1], "ok",
                ~AllLive(s, delta, n - delta), 0, 0), delta)

----------------------------------------------------------------------------
(* Failures.  A call meets at most one: operator new throwing ("alloc"),   *)
(* the constructor of the new element throwing ("ctor"), or the i-th copy  *)
(* construction ("copy"), copy assignment ("assign") or default            *)
(* construction ("value") of the call throwing.                            *)

\* The failures a call can meet: alloc and ctor say whether it allocates
\* and whether it constructs a new element from its argument, the numbers
\* are the elements it copy-constructs, copy-assigns and value-constructs.
Faults(alloc, ctor, ncopy, nassign, nvalue) ==
    {<<"none", 0>>}
        \cup (IF alloc THEN {<<"alloc", 0>>} ELSE {})
        \cup (IF ctor THEN {<<"ctor", 0>>} ELSE {})
        \cup {<<"copy", i>> : i \in 0..(ncopy - 1)}
        \cup {<<"assign", i>> : i \in 0..(nassign - 1)}
        \cup {<<"value", i>> : i \in 0..(nvalue - 1)}

\* The elements a migration to a new block copy-constructs.
MigrationCopies(a) == IF nothrowMove THEN 0 ELSE a.size

\* An index no element loop reaches.
NoFail == MaxCap + PairCap + 1

AllocOk(ft) == ft[1] # "alloc"
CtorOk(ft) == ft[1] # "ctor"
FailAt(ft, kind) == IF ft[1] = kind THEN ft[2] ELSE NoFail

----------------------------------------------------------------------------
(* The actions: one per member function                                    *)

\* The representation of a Vector is intact: size_ <= capacity, buffer_ is
\* null exactly when the capacity is 0 and otherwise points to an allocated
\* block, the slots [0, size_) hold objects and the slots from size_ on are
\* raw.
Valid(a) ==
    /\ a.size <= a.data.cap
    /\ a.data.buf = (IF a.data.cap = 0 THEN "null" ELSE "own")
    /\ Len(a.data.slots) = a.data.cap
    /\ \A k \in 1..a.data.cap : (a.data.slots[k] # Uninit) <=> (k <= a.size)

\* A run is followed until a call has undefined behaviour, std::terminate
\* is called, or a Vector is left with a broken representation (its next
\* use, its destruction at the latest, reads, destroys or deletes what is
\* not there).
Running ==
    /\ last.res \notin {"ub", "crash", "terminate"}
    /\ \A v \in Vecs : vec[v].alive => Valid(vec[v])

\* What `last` keeps of a call: the member function, the Vector it was
\* called on, its Vector argument (v itself when it has none), its size or
\* position argument, the failure it met, and how it ended.
Record(op, v, w, arg, ft, o) ==
    [op |-> op, v |-> v, w |-> w, arg |-> arg, ft |-> ft, res |-> o.res,
     lost |-> o.lost, net |-> o.net, ret |-> o.ret]

NoFault == <<"none", 0>>

Commit1(op, v, arg, ft, o) ==
    /\ vec' = [vec EXCEPT ![v] = o.a]
    /\ last' = Record(op, v, v, arg, ft, o)
    /\ UNCHANGED nothrowMove

Commit2(op, v, w, ft, o) ==
    /\ vec' = [vec EXCEPT ![v] = o.a, ![w] = o.b]
    /\ last' = Record(op, v, w, 0, ft, o)
    /\ UNCHANGED nothrowMove

DoDefaultConstruct(v) ==
    /\ Running /\ ~vec[v].alive
    /\ Commit1("Vector()", v, 0, NoFault, Out(EmptyVector, "ok", FALSE, 0, 0))

DoSizedConstruct(v, n) ==
    /\ Running /\ ~vec[v].alive
    /\ \E ft \in Faults(n # 0, FALSE, 0, 0, n) :
          Commit1("Vector(n)", v, n, ft,
                  SizedConstruct(n, AllocOk(ft), FailAt(ft, "value")))

DoCopyConstruct(v, w) ==
    /\ Running /\ v # w /\ ~vec[v].alive /\ vec[w].alive
    /\ \E ft \in Faults(vec[w].size # 0, FALSE, vec[w].size, 0, 0) :
          LET o == CopyConstruct(vec[w], AllocOk(ft), FailAt(ft, "copy"))
          IN  Commit2("Vector(const&)", v, w, ft,
                      [a |-> o.a, b |-> vec[w], res |-> o.res, lost |-> o.lost,
                       net |-> o.net, ret |-> o.ret])

DoMoveConstruct(v, w) ==
    /\ Running /\ v # w /\ ~vec[v].alive /\ vec[w].alive
    /\ \E ft \in Faults(vec[w].size # 0, FALSE, 0, 0, 0) :
          Commit2("Vector(&&)", v, w, ft, MoveConstruct(vec[w], AllocOk(ft)))

DoDestruct(v) ==
    /\ Running /\ vec[v].alive
    /\ Commit1("~Vector", v, 0, NoFault, Destruct(vec[v]))

DoCopyAssign(v, w) ==
    /\ Running /\ vec[v].alive /\ vec[w].alive
    /\ IF v = w
       THEN \* this == &rhs: nothing is done
            Commit1("CopyAssign", v, 0, NoFault, Out(vec[v], "ok", FALSE, 0, 0))
       ELSE \E ft \in (IF vec[w].size > Capacity(vec[v])
                       THEN Faults(TRUE, FALSE, vec[w].size, 0, 0)
                       ELSE Faults(FALSE, FALSE, vec[w].size - vec[v].size,
                                   Min(vec[v].size, vec[w].size), 0)) :
               Commit2("CopyAssign", v, w, ft,
                       CopyAssign(vec[v], vec[w], AllocOk(ft), FailAt(ft, "copy"),
                                  FailAt(ft, "assign")))

DoMoveAssign(v, w) ==
    /\ Running /\ vec[v].alive /\ vec[w].alive
    /\ IF v = w
       THEN Commit1("MoveAssign", v, 0, NoFault, SelfMoveAssign(vec[v]))
       ELSE Commit2("MoveAssign", v, w, NoFault, MoveAssign(vec[v], vec[w]))

DoSwap(v, w) ==
    /\ Running /\ vec[v].alive /\ vec[w].alive
    /\ IF v = w
       THEN Commit1("Swap", v, 0, NoFault, Out(vec[v], "ok", FALSE, 0, 0))
       ELSE Commit2("Swap", v, w, NoFault, Swap(vec[v], vec[w]))

DoReserve(v, n) ==
    /\ Running /\ vec[v].alive
    /\ \E ft \in (IF n <= Capacity(vec[v]) THEN Faults(FALSE, FALSE, 0, 0, 0)
                 ELSE Faults(TRUE, FALSE, MigrationCopies(vec[v]), 0, 0)) :
          Commit1("Reserve", v, n, ft,
                  Reserve(vec[v], n, AllocOk(ft), FailAt(ft, "copy")))

DoResize(v, n) ==
    /\ Running /\ vec[v].alive
    /\ \E ft \in (IF n <= Capacity(vec[v])
                 THEN Faults(FALSE, FALSE, 0, 0, n - vec[v].size)
                 ELSE Faults(TRUE, FALSE, MigrationCopies(vec[v]), 0, n - vec[v].size)) :
          Commit1("Resize", v, n, ft,
                  Resize(vec[v], n, AllocOk(ft), FailAt(ft, "copy"), FailAt(ft, "value")))

\* The failures PushBack, EmplaceBack and Emplace can meet.
GrowthFaults(a) ==
    IF a.size = Capacity(a) THEN Faults(TRUE, TRUE, MigrationCopies(a), 0, 0)
    ELSE Faults(FALSE, TRUE, 0, 0, 0)

\* The model stops growing at the capacity lim.
CanGrow(v, lim) == vec[v].size < Capacity(vec[v]) \/ GrownCapacity(vec[v]) <= lim

DoPushBack(v, x, lim) ==
    /\ Running /\ vec[v].alive /\ CanGrow(v, lim)
    /\ \E ft \in GrowthFaults(vec[v]) :
          Commit1("PushBack", v, 0, ft,
                  PushBack(vec[v], x, AllocOk(ft), CtorOk(ft), FailAt(ft, "copy")))

DoEmplaceBack(v, x, lim) ==
    /\ Running /\ vec[v].alive /\ CanGrow(v, lim)
    /\ \E ft \in GrowthFaults(vec[v]) :
          Commit1("EmplaceBack", v, 0, ft,
                  EmplaceBack(vec[v], x, AllocOk(ft), CtorOk(ft), FailAt(ft, "copy")))

DoPopBack(v) ==
    /\ Running /\ vec[v].alive
    /\ Commit1("PopBack", v, 0, NoFault, PopBack(vec[v]))

\* Emplace and Insert; pos = begin() + delta in [begin(), end()].
DoEmplace(v, delta, x, lim) ==
    /\ Running /\ vec[v].alive /\ CanGrow(v, lim)
    /\ delta \in 0..vec[v].size
    /\ \E ft \in GrowthFaults(vec[v]) :
       \E crash \in {FALSE, delta = vec[v].size /\ 0 < delta /\ delta < Capacity(vec[v])} :
          Commit1("Emplace", v, delta, ft,
                  Emplace(vec[v], delta, x, AllocOk(ft), CtorOk(ft), FailAt(ft, "copy"),
                          crash))

\* Erase; pos = begin() + delta in [begin(), end()).
DoErase(v, delta) ==
    /\ Running /\ vec[v].alive
    /\ delta \in 0..(vec[v].size - 1)
    /\ Commit1("Erase", v, delta, NoFault, Erase(vec[v], delta))

----------------------------------------------------------------------------
(* Specifications                                                          *)

NoCall ==
    [op |-> "init", v |-> 1, w |-> 1, arg |-> 0, ft |-> NoFault, res |-> "ok",
     lost |-> 0, net |-> 0, ret |-> 0]

\* Two Vectors and every member function.
Init ==
    /\ vec = [v \in Vecs |-> EmptyVector]
    /\ nothrowMove \in BOOLEAN
    /\ last = NoCall
    /\ abs = <<>>

Next ==
    \/ \E v \in Vecs : DoDefaultConstruct(v) /\ UNCHANGED abs
    \/ \E v \in Vecs, n \in 0..PairCap : DoSizedConstruct(v, n) /\ UNCHANGED abs
    \/ \E v \in Vecs, w \in Vecs : DoCopyConstruct(v, w) /\ UNCHANGED abs
    \/ \E v \in Vecs, w \in Vecs : DoMoveConstruct(v, w) /\ UNCHANGED abs
    \/ \E v \in Vecs : DoDestruct(v) /\ UNCHANGED abs
    \/ \E v \in Vecs, w \in Vecs : DoCopyAssign(v, w) /\ UNCHANGED abs
    \/ \E v \in Vecs, w \in Vecs : DoMoveAssign(v, w) /\ UNCHANGED abs
    \/ \E v \in Vecs, w \in Vecs : DoSwap(v, w) /\ UNCHANGED abs
    \/ \E v \in Vecs, n \in 0..PairCap : DoReserve(v, n) /\ UNCHANGED abs
    \/ \E v \in Vecs, n \in 0..PairCap : DoResize(v, n) /\ UNCHANGED abs
    \/ \E v \in Vecs, x \in Values : DoPushBack(v, x, PairCap) /\ UNCHANGED abs
    \/ \E v \in Vecs, x \in Values : DoEmplaceBack(v, x, PairCap) /\ UNCHANGED abs
    \/ \E v \in Vecs : DoPopBack(v) /\ UNCHANGED abs
    \/ \E v \in Vecs, delta \in 0..PairCap, x \in Values :
            DoEmplace(v, delta, x, PairCap) /\ UNCHANGED abs
    \/ \E v \in Vecs, delta \in 0..PairCap : DoErase(v, delta) /\ UNCHANGED abs

Spec == Init /\ [][Next]_vars

\* One Vector and every member function of it; the other Vector is never
\* constructed.
InitOne ==
    /\ vec = [v \in Vecs |-> IF v = 1 THEN EmptyVector ELSE Dead]
    /\ nothrowMove \in BOOLEAN
    /\ last = NoCall
    /\ abs = <<>>

NextOne ==
    \/ DoDefaultConstruct(1) /\ UNCHANGED abs
    \/ \E n \in 0..MaxCap : DoSizedConstruct(1, n) /\ UNCHANGED abs
    \/ DoDestruct(1) /\ UNCHANGED abs
    \/ DoCopyAssign(1, 1) /\ UNCHANGED abs
    \/ DoMoveAssign(1, 1) /\ UNCHANGED abs
    \/ DoSwap(1, 1) /\ UNCHANGED abs
    \/ \E n \in 0..MaxCap : DoReserve(1, n) /\ UNCHANGED abs
    \/ \E n \in 0..MaxCap : DoResize(1, n) /\ UNCHANGED abs
    \/ \E x \in Values : DoPushBack(1, x, MaxCap) /\ UNCHANGED abs
    \/ \E x \in Values : DoEmplaceBack(1, x, MaxCap) /\ UNCHANGED abs
    \/ DoPopBack(1) /\ UNCHANGED abs
    \/ \E delta \in 0..MaxCap, x \in Values : DoEmplace(1, delta, x, MaxCap) /\ UNCHANGED abs
    \/ \E delta \in 0..MaxCap : DoErase(1, delta) /\ UNCHANGED abs

SpecOne == InitOne /\ [][NextOne]_vars

----------------------------------------------------------------------------
(* One Vector, starting empty, under PushBack, PopBack, Insert and Erase,  *)
(* next to the list these calls describe.                                  *)

\* l with x placed at index i, and l without its element at index i.
InsertAt(l, i, x) == SubSeq(l, 1, i) \o <<x>> \o SubSeq(l, i + 1, Len(l))
RemoveAt(l, i) == SubSeq(l, 1, i) \o SubSeq(l, i + 2, Len(l))

\* The call returned: it did not throw, and the program did not crash.
Returned == last.res \in {"ok", "ub"}

SeqPushBack ==
    \E x \in Values :
        /\ DoPushBack(1, x, MaxCap)
        /\ abs' = IF Returned' THEN Append(abs, x) ELSE abs

SeqPopBack ==
    /\ DoPopBack(1)
    /\ abs' = IF abs = <<>> THEN abs ELSE SubSeq(abs, 1, Len(abs) - 1)

SeqInsert ==
    \E delta \in 0..MaxCap, x \in Values :
        /\ DoEmplace(1, delta, x, MaxCap)
        /\ abs' = IF Returned' THEN InsertAt(abs, delta, x) ELSE abs

SeqErase ==
    \E delta \in 0..MaxCap :
        /\ DoErase(1, delta)
        /\ abs' = RemoveAt(abs, delta)

NextSeq == SeqPushBack \/ SeqPopBack \/ SeqInsert \/ SeqErase

SpecSeq == InitOne /\ [][NextSeq]_vars

\* The same Vector with EmplaceBack among its calls.
SeqEmplaceBack ==
    \E x \in Values :
        /\ DoEmplaceBack(1, x, MaxCap)
        /\ abs' = IF Returned' THEN Append(abs, x) ELSE abs

NextGrow == NextSeq \/ SeqEmplaceBack

SpecGrow == InitOne /\ [][NextGrow]_vars

----------------------------------------------------------------------------
(* Properties                                                              *)

\* Slot i of the block of a holds an object.
SlotLive(a, i) == i < Len(a.data.slots) /\ a.data.slots[i + 1] # Uninit

\* The blocks a owns.
Blocks(a) == IF a.data.buf = "own" THEN 1 ELSE 0

\* The last call threw.
Threw == last.res \in {"bad_alloc", "elem_fail"}

\* C1: in every state a sequence of public operations reaches, failed ones
\* included, every Vector has 0 <= size <= capacity, an object in every slot
\* of [0, size) and none in any slot of [size, capacity).
C1_LiveRangeInvariant ==
    last.res \notin {"crash", "terminate"} =>
        \A v \in Vecs : vec[v].alive =>
            /\ 0 <= Size(vec[v]) /\ Size(vec[v]) <= Capacity(vec[v])
            /\ \A i \in 0..(Capacity(vec[v]) - 1) :
                  SlotLive(vec[v], i) <=> i < Size(vec[v])

\* C2: after any sequence of PushBack, PopBack, Insert and Erase from an
\* empty Vector the elements [0, Size()) are the list the same appends,
\* inserts and removals build, and Insert returns the position it was given.
C2_ListRefinement ==
    last.res # "crash" =>
        /\ Elems(vec[1]) = abs
        /\ (last.op = "Emplace" /\ Returned) => last.ret = last.arg

\* C3: after any sequence of PushBack, PopBack, Insert and Erase from an
\* empty Vector, Size() is the number of objects constructed and not yet
\* destroyed: the objects living in the block are exactly Size() many, and
\* no call has lost an object without destroying it.
C3_SizeIsNetConstructions ==
    last.res # "crash" =>
        /\ last.lost = 0
        /\ LiveCount(vec[1].data.slots) = Size(vec[1])

C3_Witness ==
    /\ last.op = "Erase" /\ last.arg = 0
    /\ Size(vec[1]) = 2 /\ Capacity(vec[1]) = 4

\* C4: on the copy path a Reserve that fails, by allocation or by the copy
\* of any element, leaves the Vector as it was, has destroyed every copy it
\* made and has released the new block.
C4_ReserveStrongGuarantee ==
    [][(last'.op = "Reserve" /\ ~nothrowMove /\ Threw')
          => (vec' = vec /\ last'.lost = 0 /\ last'.net = 0)]_vars

C4_Witness ==
    /\ last.op = "Reserve" /\ ~nothrowMove
    /\ last.res = "elem_fail" /\ last.ft = <<"copy", 2>>
    /\ Size(vec[1]) = 3

\* C5: on the copy path an Emplace at full capacity that fails, by
\* allocation, by the construction of the new element or by the copy of any
\* element of the prefix or the suffix, leaves the Vector as it was, has
\* destroyed every object it constructed in the new block and has released
\* the new block.
C5_EmplaceStrongGuarantee ==
    [][(/\ last'.op \in {"Emplace", "PushBack", "EmplaceBack"}
        /\ ~nothrowMove
        /\ Size(vec[last'.v]) = Capacity(vec[last'.v])
        /\ Threw')
          => (vec' = vec /\ last'.lost = 0 /\ last'.net = 0)]_vars

C5_Witness ==
    /\ last.op = "Emplace" /\ ~nothrowMove
    /\ last.res = "elem_fail" /\ last.ft = <<"copy", 1>> /\ last.arg = 0
    /\ Size(vec[1]) = 2 /\ Capacity(vec[1]) = 2

\* C6: a successful copy assignment a = rhs of distinct Vectors with
\* rhs.size <= a.Capacity() makes the elements of a those of rhs in order,
\* with the size of rhs and the capacity a had, leaves rhs as it was, and
\* loses no object.
C6_CopyAssignInPlace ==
    [][(/\ last'.op = "CopyAssign" /\ last'.v # last'.w /\ last'.res = "ok"
        /\ Size(vec[last'.w]) <= Capacity(vec[last'.v]))
          => (/\ Elems(vec'[last'.v]) = Elems(vec[last'.w])
              /\ Size(vec'[last'.v]) = Size(vec[last'.w])
              /\ Capacity(vec'[last'.v]) = Capacity(vec[last'.v])
              /\ vec'[last'.w] = vec[last'.w]
              /\ Valid(vec'[last'.v])
              /\ last'.lost = 0)]_vars

\* C7: a copy assignment a = rhs with rhs.size > a.Capacity() that fails
\* leaves a as it was and no copy alive; one that succeeds makes a equal to
\* rhs with capacity rhs.Size(), destroys what a held and releases its
\* block.
C7_CopyAndSwapStrongGuarantee ==
    [][(/\ last'.op = "CopyAssign" /\ last'.v # last'.w
        /\ Size(vec[last'.w]) > Capacity(vec[last'.v]))
          => IF Threw'
             THEN vec' = vec /\ last'.lost = 0 /\ last'.net = 0
             ELSE /\ last'.res = "ok"
                  /\ Elems(vec'[last'.v]) = Elems(vec[last'.w])
                  /\ Size(vec'[last'.v]) = Size(vec[last'.w])
                  /\ Capacity(vec'[last'.v]) = Size(vec[last'.w])
                  /\ Valid(vec'[last'.v])
                  /\ vec'[last'.w] = vec[last'.w]
                  /\ last'.lost = 0
                  /\ last'.net = 1 - Blocks(vec[last'.v])]_vars

C7_Witness ==
    /\ last.op = "CopyAssign" /\ last.v # last.w
    /\ last.res = "elem_fail" /\ last.ft = <<"copy", 1>>
    /\ Size(vec[last.v]) = 1
    /\ Size(vec[last.w]) > Capacity(vec[last.v])

\* C8: after a move construction from src, and after a move assignment
\* dst = std::move(src) of distinct Vectors, src is an empty Vector as
\* Vector() makes it (size 0, capacity 0, no block) and the destination has
\* the block, the elements, the size and the capacity src had.
C8_MoveLeavesSourceEmpty ==
    [][(/\ last'.op \in {"Vector(&&)", "MoveAssign"} /\ last'.v # last'.w
        /\ last'.res = "ok")
          => (/\ vec'[last'.w] = EmptyVector
              /\ vec'[last'.v].alive
              /\ vec'[last'.v].data = vec[last'.w].data
              /\ Size(vec'[last'.v]) = Size(vec[last'.w]))]_vars

C8_Witness ==
    /\ last.op = "MoveAssign" /\ last.v # last.w /\ last.res = "ok"
    /\ Size(vec[last.v]) = 2
    /\ vec[last.w] = EmptyVector

\* The call that ran last moved from Vector v.
MovedFrom(v) == last.op \in {"Vector(&&)", "MoveAssign"} /\ last.w = v

\* C9, as claimed: the capacity of a Vector never decreases, whatever is
\* called on it, unless it is moved from or swapped.
C9_CapacityNeverDecreases ==
    [][\A v \in Vecs :
          (vec[v].alive /\ vec'[v].alive /\ ~MovedFrom(v)' /\ last'.op # "Swap")
              => Capacity(vec'[v]) >= Capacity(vec[v])]_vars

\* C9, amended: the capacity of a Vector never decreases unless it is moved
\* from, swapped, or is the destination of a move assignment, which gives it
\* the capacity of the source.
C9_CapacityNeverDecreasesButByMove ==
    [][\A v \in Vecs :
          (vec[v].alive /\ vec'[v].alive /\ ~MovedFrom(v)' /\ last'.op # "Swap")
              => IF last'.op = "MoveAssign" /\ last'.v = v
                 THEN Capacity(vec'[v]) = Capacity(vec[last'.w])
                 ELSE Capacity(vec'[v]) >= Capacity(vec[v])]_vars

C9_Witness ==
    /\ last.op = "Resize" /\ last.arg = 0 /\ last.res = "ok"
    /\ Capacity(vec[last.v]) = 2

\* C10: move construction never fails, whatever the allocator does.
C10_MoveConstructNeverFails ==
    last.op = "Vector(&&)" => last.res = "ok"

\* The capacities a Vector that only grows by insertion passes through.
GrowthCapacities == {0} \cup {2 ^ k : k \in 0..MaxCap}

\* C11: a PushBack, EmplaceBack, Emplace or Insert that returns on a Vector
\* with size == capacity leaves the capacity max(1, 2 * old capacity) and
\* has released the old block; with size < capacity it leaves the capacity
\* and the block as they were.  From an empty Vector the capacities met are
\* therefore 1, 2, 4, 8, ...
C11_GrowthDoubles ==
    [][/\ (last'.op \in {"PushBack", "EmplaceBack", "Emplace"} /\ Returned')
            => IF Size(vec[1]) = Capacity(vec[1])
               THEN /\ Capacity(vec'[1]) =
                          (IF Capacity(vec[1]) = 0 THEN 1 ELSE 2 * Capacity(vec[1]))
                    /\ last'.net = 1 - Blocks(vec[1])
                    /\ last'.lost = 0
               ELSE /\ Capacity(vec'[1]) = Capacity(vec[1])
                    /\ last'.net = 0
       /\ Capacity(vec'[1]) \in GrowthCapacities]_vars

C11_Witness ==
    /\ last.op = "EmplaceBack" /\ last.res = "ok"
    /\ Size(vec[1]) = 3 /\ Capacity(vec[1]) = 4

\* C12: Erase(pos) on a Vector holding a[0..n), with pos in [0, n), leaves
\* a[0..pos) followed by a[pos+1..n) in order, size n - 1 and the capacity
\* and the block it had, destroys one object, the one in slot n - 1, and
\* returns pos.
C12_EraseRemovesOne ==
    [][last'.op = "Erase"
          => LET a == vec[last'.v]
                 b == vec'[last'.v]
             IN  /\ last'.res = "ok"
                 /\ Elems(b) = RemoveAt(Elems(a), last'.arg)
                 /\ Size(b) = Size(a) - 1
                 /\ Capacity(b) = Capacity(a) /\ b.data.buf = a.data.buf
                 /\ LiveCount(b.data.slots) = LiveCount(a.data.slots) - 1
                 /\ ~SlotLive(b, Size(a) - 1)
                 /\ last'.lost = 0 /\ last'.net = 0
                 /\ last'.ret = last'.arg]_vars

C12_Witness ==
    /\ last.op = "Erase" /\ last.arg = 1 /\ last.res = "ok"
    /\ Size(vec[1]) = 3 /\ Capacity(vec[1]) = 4
    /\ Elems(vec[1])[1] # Elems(vec[1])[2]

\* The Vectors a call works on: both for a move and a swap, the one it is
\* called on (or constructs) otherwise.
Touched(l) ==
    IF l.op \in {"Vector(&&)", "MoveAssign", "Swap"} THEN {l.v, l.w} ELSE {l.v}

\* C13: a copy construction from other that returns gives a Vector with the
\* size of other, a capacity of exactly other.Size() and the elements of
\* other in order, in a block of its own (one block is allocated, none when
\* other is empty), and leaves other as it was; from then on a call on one
\* of the two Vectors changes nothing of the other.
C13_CopyIsIndependent ==
    [][/\ (last'.op = "Vector(const&)" /\ last'.res = "ok")
            => /\ Size(vec'[last'.v]) = Size(vec[last'.w])
               /\ Capacity(vec'[last'.v]) = Size(vec[last'.w])
               /\ Elems(vec'[last'.v]) = Elems(vec[last'.w])
               /\ Valid(vec'[last'.v])
               /\ vec'[last'.w] = vec[last'.w]
               /\ last'.net = (IF Size(vec[last'.w]) > 0 THEN 1 ELSE 0)
               /\ last'.lost = 0
       /\ \A u \in Vecs \ Touched(last') : vec'[u] = vec[u]]_vars

C13_Witness ==
    /\ last.op = "Vector(const&)" /\ last.res = "ok"
    /\ Size(vec[last.w]) = 1 /\ Capacity(vec[last.w]) = 2
    /\ Capacity(vec[last.v]) = 1

\* C14: Reserve(new_capacity) with new_capacity <= Capacity() changes
\* nothing; with new_capacity > Capacity(), when it returns, the capacity is
\* new_capacity, the size and the elements in order are the same, every
\* object of the old block has been destroyed and the old block released.
C14_ReserveGrowsExactly ==
    [][(last'.op = "Reserve" /\ last'.res = "ok")
          => LET a == vec[last'.v]
                 b == vec'[last'.v]
             IN  IF last'.arg <= Capacity(a)
                 THEN vec' = vec /\ last'.lost = 0 /\ last'.net = 0
                 ELSE /\ Capacity(b) = last'.arg
                      /\ Size(b) = Size(a)
                      /\ Elems(b) = Elems(a)
                      /\ Valid(b)
                      /\ last'.lost = 0
                      /\ last'.net = 1 - Blocks(a)]_vars

C14_Witness ==
    /\ last.op = "Reserve" /\ last.res = "ok" /\ last.arg = 3
    /\ Size(vec[1]) = 2 /\ Capacity(vec[1]) = 3
    /\ Elems(vec[1])[1] # Elems(vec[1])[2]

\* n elements T().
Defaults(n) == [i \in 1..n |-> DefaultValue]

\* C15: a Resize(new_size) that returns leaves the size new_size.  With
\* new_size < size it destroys the objects of [new_size, size) and no
\* other, and keeps the elements of [0, new_size), the capacity and the
\* block; with new_size > size it keeps the elements of [0, size) in order,
\* makes those of [size, new_size) T(), and the capacity becomes the larger
\* of the old capacity and new_size.
C15_ResizeSetsSize ==
    [][(last'.op = "Resize" /\ last'.res = "ok")
          => LET a == vec[last'.v]
                 b == vec'[last'.v]
                 n == last'.arg
             IN  /\ Size(b) = n
                 /\ Valid(b)
                 /\ last'.lost = 0
                 /\ IF n < Size(a)
                    THEN /\ Elems(b) = SubSeq(Elems(a), 1, n)
                         /\ LiveCount(b.data.slots) = LiveCount(a.data.slots) - (Size(a) - n)
                         /\ Capacity(b) = Capacity(a) /\ b.data.buf = a.data.buf
                         /\ last'.net = 0
                    ELSE /\ Elems(b) = Elems(a) \o Defaults(n - Size(a))
                         /\ Capacity(b) = (IF n > Capacity(a) THEN n ELSE Capacity(a))]_vars

C15_Witness ==
    /\ last.op = "Resize" /\ last.res = "ok" /\ last.arg = 3
    /\ Capacity(vec[1]) = 3
    /\ Elems(vec[1]) = <<DefaultValue + 1, DefaultValue, DefaultValue>>

\* C16: PopBack on an empty Vector returns having changed nothing and
\* destroyed nothing; on a Vector of n > 0 elements it destroys the object
\* in slot n - 1 and no other, leaves size n - 1, and keeps the other
\* elements, the capacity and the block.
C16_PopBackRemovesLast ==
    [][last'.op = "PopBack"
          => LET a == vec[last'.v]
                 b == vec'[last'.v]
             IN  /\ last'.res = "ok"
                 /\ last'.lost = 0 /\ last'.net = 0
                 /\ IF Size(a) = 0
                    THEN vec' = vec
                    ELSE /\ Size(b) = Size(a) - 1
                         /\ Elems(b) = SubSeq(Elems(a), 1, Size(a) - 1)
                         /\ LiveCount(b.data.slots) = LiveCount(a.data.slots) - 1
                         /\ ~SlotLive(b, Size(a) - 1)
                         /\ Capacity(b) = Capacity(a) /\ b.data.buf = a.data.buf]_vars

C16_Witness ==
    /\ last.op = "PopBack" /\ last.res = "ok"
    /\ Size(vec[1]) = 0 /\ Capacity(vec[1]) = 0

\* C17: an Emplace(pos, args) on a non-empty Vector with spare capacity in
\* which the construction of the new value from args throws leaves the
\* Vector as it was: no element moved, shifted or overwritten, no object in
\* a slot at or past size, size and capacity the same.
C17_EmplaceInPlaceCtorFailure ==
    [][(/\ last'.op = "Emplace" /\ last'.ft[1] = "ctor"
        /\ 0 < Size(vec[last'.v]) /\ Size(vec[last'.v]) < Capacity(vec[last'.v]))
          => /\ last'.res = "elem_fail"
             /\ vec' = vec
             /\ last'.lost = 0 /\ last'.net = 0]_vars

C17_Witness ==
    /\ last.op = "Emplace" /\ last.ft[1] = "ctor" /\ last.res = "elem_fail"
    /\ last.arg = 1
    /\ Size(vec[1]) = 3 /\ Capacity(vec[1]) = 4

\* C18: no call releases a block in which an object still lives: Reserve,
\* a reallocating Emplace, copy assignment by copy and swap, move assignment
\* into another Vector and destruction destroy every object of the block
\* they give up before the block is deallocated.
C18_NoReleaseWithLiveElements ==
    [][(/\ last'.res \notin {"crash", "terminate"}
        /\ \/ last'.op \in {"Reserve", "Emplace", "PushBack", "EmplaceBack", "~Vector"}
           \/ last'.op = "MoveAssign" /\ last'.v # last'.w
           \/ /\ last'.op = "CopyAssign" /\ last'.v # last'.w
              /\ Size(vec[last'.w]) > Capacity(vec[last'.v]))
          => last'.lost = 0]_vars

\* C19: assigning a Vector to itself, by copy or by move, leaves it as it
\* was: the same block, still allocated, the same size, capacity and
\* elements, and a buffer that is null exactly when the capacity is 0.
C19_SelfAssignmentKeepsVector ==
    [][(last'.op \in {"CopyAssign", "MoveAssign"} /\ last'.v = last'.w)
          => /\ last'.res = "ok"
             /\ vec' = vec
             /\ Valid(vec'[last'.v])
             /\ last'.lost = 0 /\ last'.net = 0]_vars

====
